---- MODULE Spec2Model ----
(***************************************************************************)
(* Multi-interval stock price simulator.                                   *)
(*                                                                         *)
(*   src/ui/util.py           parse_float                                  *)
(*   src/models/gbm.py        generate_gbm_prices                          *)
(*   src/models/svm.py        generate_svm_prices                          *)
(*   src/ui/simulator_ui.py   StockSimulatorGUI.run_simulation             *)
(*                            StockSimulatorGUI.export_simulation          *)
(*                                                                         *)
(* Number domain.  A float is an integer in 0 - FloatMax .. FloatMax, or   *)
(* Inf (overflow), or NaN.  exp(x) is the factor 2^x; a product is rounded *)
(* down to the grid, so a price can underflow to 0 and overflow to Inf as  *)
(* an IEEE double does.  sqrt is the integer square root and is NaN for a  *)
(* negative argument, as np.sqrt is.                                       *)
(*                                                                         *)
(* Random source.  numpy's global generator is a deterministic stream      *)
(* whose state is set by np.random.seed or, unseeded, by the environment.  *)
(* rng is that stream: a cyclic sequence of standard-normal draws of       *)
(* period StreamLen; the head is the next draw.                            *)
(***************************************************************************)
EXTENDS Integers, Sequences, FiniteSets, TLC

VARIABLES
    model_intervals,     \* StockSimulatorGUI.model_intervals, one configuration per interval
    simulation_results,  \* StockSimulatorGUI.simulation_results; None is the empty dict
    messages,            \* the message boxes the last handler showed
    calls,               \* the generator calls the last run_simulation made
    rng,                 \* numpy's global random stream
    pc, call, ret,       \* a function called directly: position, arguments, result
    plotted,             \* the days and prices of the last plot window; None before the first
    exported,            \* the rows of the file the last export wrote; None before the first
    clicks               \* the number of user actions of the session so far

vars == <<model_intervals, simulation_results, messages, calls, rng, pc, call, ret,
          plotted, exported, clicks>>

\* ------------------------------------------------------------------------
\* Bounds of the model
\* ------------------------------------------------------------------------
FloatMax == 1048576
StreamLen == 3
MaxT == 2
MaxSteps == 2
MaxDay == 2
MaxIntervals == 2
MaxClicks == 4

Draws == {-1, 1}

\* ------------------------------------------------------------------------
\* Floats
\* ------------------------------------------------------------------------
Inf == FloatMax + 1
NaN == (0 - FloatMax) - 2
None == <<>>
Some(x) == <<x>>
IsNone(o) == o = <<>>
Val(o) == o[1]

\* no generator call pending
NoCall == [fn |-> "none"]

IsNaN(x) == x = NaN
IsInf(x) == x = Inf
Finite(x) == x # NaN /\ x # Inf

Round(x) == IF x > FloatMax THEN Inf ELSE IF x < 0 - FloatMax THEN 0 - FloatMax ELSE x

Add(a, b) ==
    IF IsNaN(a) \/ IsNaN(b) THEN NaN
    ELSE IF IsInf(a) \/ IsInf(b) THEN Inf
    ELSE Round(a + b)

Sub(a, b) ==
    IF IsNaN(a) \/ IsNaN(b) THEN NaN
    ELSE IF IsInf(a) /\ IsInf(b) THEN NaN
    ELSE IF IsInf(a) THEN Inf
    ELSE IF IsInf(b) THEN 0 - FloatMax
    ELSE Round(a - b)

Mul(a, b) ==
    IF IsNaN(a) \/ IsNaN(b) THEN NaN
    ELSE IF IsInf(a) THEN (IF b = 0 THEN NaN ELSE IF b > 0 THEN Inf ELSE 0 - FloatMax)
    ELSE IF IsInf(b) THEN (IF a = 0 THEN NaN ELSE IF a > 0 THEN Inf ELSE 0 - FloatMax)
    ELSE Round(a * b)

\* a / n for an integer n >= 1 (dt / steps_per_day)
Div(a, n) == IF Finite(a) THEN a \div n ELSE a

\* 0.5 * x
Half(x) == IF Finite(x) THEN x \div 2 ELSE x

\* a < b as IEEE compares: false when either side is NaN
Lt(a, b) == ~IsNaN(a) /\ ~IsNaN(b) /\ a < b
Le(a, b) == ~IsNaN(a) /\ ~IsNaN(b) /\ a <= b

\* Python's max(a, b): b replaces a only when b > a
PyMax(a, b) == IF Lt(a, b) THEN b ELSE a

\* np.sqrt
Sqrt(x) ==
    IF IsNaN(x) \/ x < 0 THEN NaN
    ELSE IF IsInf(x) THEN Inf
    ELSE CHOOSE r \in 0..x : r * r <= x /\ (r + 1) * (r + 1) > x

RECURSIVE Doubled(_, _)
Doubled(s, k) ==
    IF k = 0 \/ s = 0 THEN s
    ELSE IF s > FloatMax \div 2 THEN Inf
    ELSE IF s < 0 - (FloatMax \div 2) THEN 0 - FloatMax
    ELSE Doubled(2 * s, k - 1)

RECURSIVE Halved(_, _)
Halved(s, k) == IF k = 0 \/ s = 0 THEN s ELSE Halved(s \div 2, k - 1)

\* s * np.exp(x)
MulExp(s, x) ==
    IF IsNaN(s) \/ IsNaN(x) THEN NaN
    ELSE IF IsInf(x) THEN (IF s = 0 THEN NaN ELSE Inf)
    ELSE IF IsInf(s) THEN Inf
    ELSE IF x >= 0 THEN Doubled(s, x)
    ELSE Halved(s, 0 - x)

\* np.max / np.min of a non-empty list: NaN as soon as one entry is NaN
NpMax(xs) ==
    IF \E k \in 1..Len(xs) : IsNaN(xs[k]) THEN NaN
    ELSE CHOOSE m \in {xs[k] : k \in 1..Len(xs)} : \A k \in 1..Len(xs) : xs[k] <= m

NpMin(xs) ==
    IF \E k \in 1..Len(xs) : IsNaN(xs[k]) THEN NaN
    ELSE CHOOSE m \in {xs[k] : k \in 1..Len(xs)} : \A k \in 1..Len(xs) : m <= xs[k]

\* ------------------------------------------------------------------------
\* The random stream
\* ------------------------------------------------------------------------
Streams == [1..StreamLen -> Draws]

\* np.random.normal(): the value drawn and the state left behind
Draw(r) == Head(r)
Advance(r) == Append(Tail(r), Head(r))

RECURSIVE AdvanceBy(_, _)
AdvanceBy(r, n) == IF n = 0 THEN r ELSE AdvanceBy(Advance(r), n - 1)

\* np.random.normal(0, 1, n): the array drawn, 0-based
DrawArray(r, n) == [k \in 0..(n - 1) |-> Draw(AdvanceBy(r, k))]

\* np.random.seed(seed): the state is a function of the seed alone
SeedState(seed) == [k \in 1..StreamLen |-> IF (seed \div (2 ^ (k - 1))) % 2 = 0 THEN 1 ELSE -1]

\* Seeded without the call of np.random.seed
SeededNever(seed, r) == r

\* if seed is not None: np.random.seed(seed)
Seeded(seed, r) == IF IsNone(seed) THEN r ELSE SeedState(Val(seed))

\* ------------------------------------------------------------------------
\* generate_gbm_prices
\* ------------------------------------------------------------------------
GbmExponent(a, dt_intra, Z) ==
    Add(Mul(Sub(a.mu, Half(Mul(a.sigma, a.sigma))), dt_intra),
        Mul(Mul(a.sigma, Sqrt(dt_intra)), Z))

\* DayOpen taking the price after the day's first sub-step
DayOpenFirstStep(S, t, steps_per_day) == S[t - steps_per_day + 1]

\* open_p of the day that ends at index t: the price before its first sub-step
DayOpen(S, t, steps_per_day) == S[t - steps_per_day]

\* The rest of an iteration once S[t] = St is computed: the price is stored
\* and appended to day_prices and, on the last sub-step of a day, the bar is
\* appended and day_prices reset
GbmStore(a, f, t, St) ==
    LET S1 == [f.S EXCEPT ![t] = St]
        dp == Append(f.day_prices, St)
        g == [f EXCEPT !.S = S1, !.rng = Advance(f.rng), !.draws = f.draws + 1]
    IN  IF t % a.steps_per_day = 0
        THEN [g EXCEPT !.open_prices = Append(f.open_prices, DayOpen(S1, t, a.steps_per_day)),
                       !.close_prices = Append(f.close_prices, S1[t]),
                       !.high_prices = Append(f.high_prices, NpMax(dp)),
                       !.low_prices = Append(f.low_prices, NpMin(dp)),
                       !.day_prices = <<>>]
        ELSE [g EXCEPT !.day_prices = dp]

\* One iteration of the loop over t in 1..total_steps
GbmIter(a, f, t) ==
    GbmStore(a, f, t,
             MulExp(f.S[t - 1], GbmExponent(a, Div(a.dt, a.steps_per_day), Draw(f.rng))))

RECURSIVE GbmLoop(_, _, _)
GbmLoop(a, f, t) ==
    IF t > a.T * a.steps_per_day THEN f ELSE GbmLoop(a, GbmIter(a, f, t), t + 1)

\* the arrays before the loop
GbmStart(a, r) ==
    [S |-> [k \in 0..(a.T * a.steps_per_day) |-> IF k = 0 THEN a.S0 ELSE 0],
     day_prices |-> <<>>,
     open_prices |-> <<>>, close_prices |-> <<>>,
     high_prices |-> <<>>, low_prices |-> <<>>,
     rng |-> Seeded(a.seed, r), draws |-> 0]

\* days = np.arange(1, T + 1) and the returned arrays, with the path S and
\* the random stream the call leaves
GbmReturn(a, f) ==
    [fn |-> "gbm", days |-> [k \in 1..a.T |-> k],
     open |-> f.open_prices, close |-> f.close_prices,
     high |-> f.high_prices, low |-> f.low_prices,
     S |-> f.S, rng |-> f.rng, draws |-> f.draws]

generate_gbm_prices(a, r) == GbmReturn(a, GbmLoop(a, GbmStart(a, r), 1))

\* ------------------------------------------------------------------------
\* generate_svm_prices
\* ------------------------------------------------------------------------
\* Z2 = rho * eps1 + np.sqrt(1 - rho ** 2) * eps2, element by element
CorrelatedDraw(rho, e1, e2) == Add(Mul(rho, e1), Mul(Sqrt(Sub(1, Mul(rho, rho))), e2))

\* DriftToday with the window's last day left out
DriftTodayEndExclusive(a, day) ==
    IF /\ ~IsNone(a.bubble_start) /\ ~IsNone(a.bubble_end)
       /\ ~IsNone(a.bubble_mu_extra)
       /\ Val(a.bubble_start) <= day /\ day < Val(a.bubble_end)
    THEN Add(a.mu, Val(a.bubble_mu_extra))
    ELSE a.mu

\* drift_today for the 1-based day of sub-step t
DriftToday(a, day) ==
    IF /\ ~IsNone(a.bubble_start) /\ ~IsNone(a.bubble_end)
       /\ ~IsNone(a.bubble_mu_extra)
       /\ Val(a.bubble_start) <= day /\ day <= Val(a.bubble_end)
    THEN Add(a.mu, Val(a.bubble_mu_extra))
    ELSE a.mu

\* v[t + 1] before the clamp
VarianceUpdate(a, vt, dt_intra, Z2t) ==
    Add(Add(vt, Mul(Mul(a.kappa, Sub(a.theta, vt)), dt_intra)),
        Mul(Mul(a.sigma_v, Sqrt(Mul(PyMax(vt, 0), dt_intra))), Z2t))

\* if v[t + 1] < 0: v[t + 1] = 0
ClampVariance(x) == IF Lt(x, 0) THEN 0 ELSE x

SvmExponent(vt, drift_today, dt_intra, Z1t) ==
    Add(Mul(Sub(drift_today, Half(vt)), dt_intra),
        Mul(Sqrt(Mul(PyMax(vt, 0), dt_intra)), Z1t))

\* CrashFires testing the day of the sub-step, not the sub-step itself
CrashFiresAllDay(a, t) ==
    /\ ~IsNone(a.crash_day) /\ ~IsNone(a.crash_factor)
    /\ (t \div a.steps_per_day) + 1 = Val(a.crash_day)

\* the crash test of sub-step t
CrashFires(a, t) ==
    /\ ~IsNone(a.crash_day) /\ ~IsNone(a.crash_factor)
    /\ (t + 1) = Val(a.crash_day) * a.steps_per_day

\* day_prices[-1] = S[t + 1]
CrashDayPrices(day_prices, St) == [day_prices EXCEPT ![Len(day_prices)] = St]

\* The rest of an iteration once the sub-step's values are computed.
\* drift, diffused and crashed record, per sub-step, the local drift_today,
\* the value Sd the log-Euler line stores in S[t + 1], and whether the crash
\* line ran; St is S[t + 1] after the crash line.
SvmStore(a, f, t, drift_today, v1, Sd, St) ==
    LET crash == CrashFires(a, t)
        S1 == [f.S EXCEPT ![t + 1] = St]
        dp0 == Append(f.day_prices, Sd)
        dp == IF crash THEN CrashDayPrices(dp0, St) ELSE dp0
        g == [f EXCEPT !.S = S1, !.v = [f.v EXCEPT ![t + 1] = v1],
                       !.drift = Append(f.drift, drift_today),
                       !.diffused = Append(f.diffused, Sd),
                       !.crashed = Append(f.crashed, crash)]
    IN  IF (t + 1) % a.steps_per_day = 0
        THEN [g EXCEPT !.open_prices = Append(f.open_prices, DayOpen(S1, t + 1, a.steps_per_day)),
                       !.close_prices = Append(f.close_prices, S1[t + 1]),
                       !.high_prices = Append(f.high_prices, NpMax(dp)),
                       !.low_prices = Append(f.low_prices, NpMin(dp)),
                       !.day_prices = <<>>]
        ELSE [g EXCEPT !.day_prices = dp]

\* S[t + 1] *= crash_factor on the crash sub-step
SvmCrash(a, f, t, drift_today, v1, Sd) ==
    SvmStore(a, f, t, drift_today, v1, Sd,
             IF CrashFires(a, t) THEN Mul(Sd, Val(a.crash_factor)) ELSE Sd)

\* the variance and price updates of sub-step t under the day's drift
SvmUpdate(a, f, t, dt_intra, drift_today) ==
    SvmCrash(a, f, t, drift_today,
             ClampVariance(VarianceUpdate(a, f.v[t], dt_intra,
                                          CorrelatedDraw(a.rho, f.eps1[t], f.eps2[t]))),
             MulExp(f.S[t], SvmExponent(f.v[t], drift_today, dt_intra, f.eps1[t])))

\* One iteration of the loop over t in 0..total_steps-1
SvmIter(a, f, t) ==
    SvmUpdate(a, f, t, Div(a.dt, a.steps_per_day),
              DriftToday(a, (t \div a.steps_per_day) + 1))

RECURSIVE SvmLoop(_, _, _)
SvmLoop(a, f, t) ==
    IF t >= a.T * a.steps_per_day THEN f ELSE SvmLoop(a, SvmIter(a, f, t), t + 1)

\* the arrays before the loop; eps1 and eps2 are drawn one after the other
\* from the stream r0
SvmStart(a, r0) ==
    [S |-> [k \in 0..(a.T * a.steps_per_day) |-> IF k = 0 THEN a.S0 ELSE 0],
     v |-> [k \in 0..(a.T * a.steps_per_day) |-> IF k = 0 THEN a.v0 ELSE 0],
     eps1 |-> DrawArray(r0, a.T * a.steps_per_day),
     eps2 |-> DrawArray(AdvanceBy(r0, a.T * a.steps_per_day), a.T * a.steps_per_day),
     day_prices |-> <<>>,
     open_prices |-> <<>>, close_prices |-> <<>>,
     high_prices |-> <<>>, low_prices |-> <<>>,
     drift |-> <<>>, diffused |-> <<>>, crashed |-> <<>>]

\* days = np.arange(1, T + 1) and the returned arrays, with the paths S and
\* v, the per-sub-step records and the random stream the call leaves
SvmReturn(a, r0, f) ==
    [fn |-> "svm", days |-> [k \in 1..a.T |-> k],
     open |-> f.open_prices, close |-> f.close_prices,
     high |-> f.high_prices, low |-> f.low_prices,
     S |-> f.S, v |-> f.v,
     drift |-> f.drift, diffused |-> f.diffused, crashed |-> f.crashed,
     eps1 |-> f.eps1, eps2 |-> f.eps2,
     rng |-> AdvanceBy(r0, 2 * a.T * a.steps_per_day), draws |-> 2 * a.T * a.steps_per_day]

\* the call on the stream r0 left by the optional seeding
SvmSeeded(a, r0) == SvmReturn(a, r0, SvmLoop(a, SvmStart(a, r0), 0))

generate_svm_prices(a, r) == SvmSeeded(a, Seeded(a.seed, r))

\* ------------------------------------------------------------------------
\* Entry texts and their parsers (src/ui/util.py)
\* ------------------------------------------------------------------------
\* The text of an entry: "7" is IntStr(7), "0.15" is DecStr(15, 100),
\* "1/365" is FracStr(1, 365), "nan" is NanStr, any other text is Junk.
IntStr(n) == [form |-> "int", num |-> n, den |-> 1]
DecStr(n, d) == [form |-> "dec", num |-> n, den |-> d]
FracStr(n, d) == [form |-> "frac", num |-> n, den |-> d]
NanStr == [form |-> "nan", num |-> 0, den |-> 1]
Junk == [form |-> "junk", num |-> 0, den |-> 1]

\* no text: a message that quotes no entry, an exception raised by the library
NoText == [form |-> "none", num |-> 0, den |-> 1]

\* the outcome of a conversion: the number returned, or the exception raised
\* and the text its message quotes
Ok(x) == [ok |-> TRUE, val |-> x, exc |-> "none", arg |-> NoText]
Raise(e) == [ok |-> FALSE, val |-> 0, exc |-> e, arg |-> NoText]

\* float(q) for the exact rational q: the division of two integers raises
\* OverflowError when the quotient is beyond the range of a float
FloatOfRational(q) ==
    IF q > FloatMax \/ q < 0 - FloatMax THEN Raise("OverflowError") ELSE Ok(q)

\* float(Fraction(value_str))
Fraction(s) ==
    IF s.form \in {"int", "dec"} THEN FloatOfRational(s.num \div s.den)
    ELSE IF s.form = "frac"
         THEN (IF s.den = 0 THEN Raise("ZeroDivisionError")
               ELSE FloatOfRational(s.num \div s.den))
    ELSE Raise("ValueError")

\* float(value_str)
PyFloat(s) ==
    IF s.form \in {"int", "dec"} THEN Ok(Round(s.num \div s.den))
    ELSE IF s.form = "nan" THEN Ok(NaN)
    ELSE Raise("ValueError")

\* int(value_str); the days and day counts of the model stay inside the grid
PyInt(s) == IF s.form = "int" THEN Ok(s.num) ELSE Raise("ValueError")

\* The except clause catches ValueError and ZeroDivisionError; any other
\* exception of the fraction parse leaves the function.  The ValueError the
\* function raises itself quotes value_str.
parse_float(value_str) ==
    LET f == Fraction(value_str)
    IN  IF f.ok \/ f.exc \notin {"ValueError", "ZeroDivisionError"} THEN f
        ELSE LET g == PyFloat(value_str)
             IN  IF g.ok THEN g ELSE [Raise("ValueError") EXCEPT !.arg = value_str]

\* ------------------------------------------------------------------------
\* StockSimulatorGUI.run_simulation (src/ui/simulator_ui.py)
\* ------------------------------------------------------------------------
GBM == "Geometric Brownian Motion (GBM)"
SVM == "Stochastic Volatility Model (Heston)"

K_connected == "Initial Price Connected to Previous Ending Price"
K_dt == "Time Step (dt)"
K_S0 == "Initial Stock Price (S0)"
K_mu == "Drift (mu)"
K_sigma == "Volatility (sigma)"
K_v0 == "Initial Variance (v0)"
K_kappa == "Mean Reversion Speed (kappa)"
K_theta == "Long-term Mean Var (theta)"
K_sigma_v == "Vol of Vol (sigma)"
K_rho == "Correlation (rho)"
K_base_mu == "Base Drift (mu)"
K_bubble_extra == "Bubble Extra Drift (dmu)"   \* the source spells dmu with a Greek delta
K_bubble_start == "Bubble Start"
K_bubble_end == "Bubble End"
K_crash_day == "Crash Day"
K_crash_factor == "Crash Factor"

\* steps_per_day=4, the default both generators are called with
DefaultStepsPerDay == 4

\* params.get(key, default)
Get(params, key, default) == IF key \in DOMAIN params THEN params[key] ELSE default

\* messagebox.showerror(title, text): the interval number the text names
\* (0 when it names none), the entry text it quotes and the model tag it quotes
Message(title, index, text, tag) == [title |-> title, index |-> index, text |-> text, tag |-> tag]

\* if start_day >= end_day: raise ValueError
BadOrderStrict(start_day, end_day) == start_day > end_day
BadOrder(start_day, end_day) == start_day >= end_day

\* Step 1: the position of the first interval whose days are rejected, 0 if none
RECURSIVE FirstRejected(_, _)
FirstRejected(cfgs, idx) ==
    IF idx > Len(cfgs) THEN 0
    ELSE LET st == PyInt(cfgs[idx].start)
             en == PyInt(cfgs[idx].end)
         IN  IF ~st.ok \/ ~en.ok \/ BadOrder(st.val, en.val) THEN idx
             ELSE FirstRejected(cfgs, idx + 1)

ValidationMessage(cfgs, idx) ==
    LET st == PyInt(cfgs[idx].start)
        en == PyInt(cfgs[idx].end)
    IN  IF ~st.ok THEN Message("Error", 0, cfgs[idx].start, "")
        ELSE IF ~en.ok THEN Message("Error", 0, cfgs[idx].end, "")
        ELSE Message("Error", idx, NoText, "")

\* Step 2: interval_configs.sort(key=lambda c: int(c["start"])), a stable sort
RECURSIVE InsertByStart(_, _)
InsertByStart(sorted, c) ==
    IF sorted = <<>> THEN <<c>>
    ELSE IF PyInt(c.start).val < PyInt(sorted[Len(sorted)].start).val
         THEN Append(InsertByStart(SubSeq(sorted, 1, Len(sorted) - 1), c), sorted[Len(sorted)])
         ELSE Append(sorted, c)

RECURSIVE SortByStart(_)
SortByStart(cfgs) ==
    IF cfgs = <<>> THEN <<>>
    ELSE InsertByStart(SortByStart(SubSeq(cfgs, 1, Len(cfgs) - 1)), cfgs[Len(cfgs)])

\* the first failed conversion of a list, in evaluation order; 0 if none
FirstFailure(rs) ==
    IF \A k \in 1..Len(rs) : rs[k].r.ok THEN 0
    ELSE CHOOSE k \in 1..Len(rs) : ~rs[k].r.ok /\ \A j \in 1..(k - 1) : rs[j].r.ok

\* S0 = last_price if last_price is not None else float(params.get(...))
InitialPriceConfigured(last_price, params) == PyFloat(Get(params, K_S0, IntStr(100)))
InitialPrice(last_price, params) ==
    IF ~IsNone(last_price) THEN Ok(Val(last_price)) ELSE PyFloat(Get(params, K_S0, IntStr(100)))

\* The conversions of a GBM interval in the order the code evaluates them,
\* each with the text it converts
GbmConversions(params, last_price) ==
    << [r |-> parse_float(Get(params, K_dt, FracStr(1, 365))), text |-> Get(params, K_dt, FracStr(1, 365))],
       [r |-> InitialPrice(last_price, params), text |-> Get(params, K_S0, IntStr(100))],
       [r |-> parse_float(Get(params, K_mu, DecStr(15, 100))), text |-> Get(params, K_mu, DecStr(15, 100))],
       [r |-> parse_float(Get(params, K_sigma, DecStr(5, 100))), text |-> Get(params, K_sigma, DecStr(5, 100))] >>

GbmCallArgs(T, c) ==
    [T |-> T, dt |-> c[1].r.val, S0 |-> c[2].r.val, mu |-> c[3].r.val, sigma |-> c[4].r.val,
     steps_per_day |-> DefaultStepsPerDay, seed |-> None]

\* int(params.get("Crash Day", bubble_end)): the default is the integer bubble_end
CrashDayConversion(params, bubble_end) ==
    IF K_crash_day \in DOMAIN params THEN PyInt(params[K_crash_day]) ELSE bubble_end

SvmConversions(params, last_price) ==
    LET be == PyInt(Get(params, K_bubble_end, IntStr(0)))
    IN
    << [r |-> parse_float(Get(params, K_dt, FracStr(1, 365))), text |-> Get(params, K_dt, FracStr(1, 365))],
       [r |-> InitialPrice(last_price, params), text |-> Get(params, K_S0, IntStr(100))],
       [r |-> parse_float(Get(params, K_v0, DecStr(4, 100))), text |-> Get(params, K_v0, DecStr(4, 100))],
       [r |-> parse_float(Get(params, K_kappa, DecStr(30, 10))), text |-> Get(params, K_kappa, DecStr(30, 10))],
       [r |-> parse_float(Get(params, K_theta, DecStr(4, 100))), text |-> Get(params, K_theta, DecStr(4, 100))],
       [r |-> parse_float(Get(params, K_sigma_v, DecStr(6, 10))), text |-> Get(params, K_sigma_v, DecStr(6, 10))],
       [r |-> parse_float(Get(params, K_rho, DecStr(-7, 10))), text |-> Get(params, K_rho, DecStr(-7, 10))],
       [r |-> parse_float(Get(params, K_base_mu, DecStr(5, 100))), text |-> Get(params, K_base_mu, DecStr(5, 100))],
       [r |-> PyInt(Get(params, K_bubble_start, IntStr(0))), text |-> Get(params, K_bubble_start, IntStr(0))],
       [r |-> be, text |-> Get(params, K_bubble_end, IntStr(0))],
       [r |-> IF K_bubble_extra \in DOMAIN params
              THEN parse_float(params[K_bubble_extra]) ELSE Ok(0),
        text |-> Get(params, K_bubble_extra, DecStr(15, 100))],
       [r |-> CrashDayConversion(params, be), text |-> Get(params, K_crash_day, IntStr(0))],
       [r |-> IF K_crash_factor \in DOMAIN params
              THEN parse_float(params[K_crash_factor]) ELSE Ok(0),
        text |-> Get(params, K_crash_factor, DecStr(70, 100))] >>

SvmCallArgs(T, params, c) ==
    [T |-> T, dt |-> c[1].r.val, S0 |-> c[2].r.val, v0 |-> c[3].r.val,
     kappa |-> c[4].r.val, theta |-> c[5].r.val, sigma_v |-> c[6].r.val,
     rho |-> c[7].r.val, mu |-> c[8].r.val,
     bubble_start |-> Some(c[9].r.val), bubble_end |-> Some(c[10].r.val),
     bubble_mu_extra |-> IF K_bubble_extra \in DOMAIN params THEN Some(c[11].r.val) ELSE None,
     crash_day |-> Some(c[12].r.val),
     crash_factor |-> IF K_crash_factor \in DOMAIN params THEN Some(c[13].r.val) ELSE None,
     steps_per_day |-> DefaultStepsPerDay, seed |-> None]

\* current_offset += T
NextOffsetEndDay(current_offset, T, end_day) == current_offset + end_day
NextOffset(current_offset, T, end_day) == current_offset + T

\* overall_*.extend(...), current_offset += T, last_price = close_p[-1]:
\* the locals after the generator returned res
Extend(st, i, icfg, T, end_day, args, res) ==
    [st EXCEPT !.rng = res.rng,
               !.calls = Append(st.calls, [i |-> i, cfg |-> icfg, args |-> args, res |-> res]),
               !.current_offset = NextOffset(st.current_offset, T, end_day),
               !.overall_days = st.overall_days \o [k \in 1..T |-> res.days[k] + st.current_offset],
               !.overall_open = st.overall_open \o res.open,
               !.overall_close = st.overall_close \o res.close,
               !.overall_high = st.overall_high \o res.high,
               !.overall_low = st.overall_low \o res.low,
               !.last_price = Some(res.close[Len(res.close)])]

\* the call of the generator the model tag names
Simulate(st, i, icfg, T, end_day, args) ==
    Extend(st, i, icfg, T, end_day, args,
           IF icfg.model = GBM THEN generate_gbm_prices(args, st.rng)
           ELSE generate_svm_prices(args, st.rng))

\* except ValueError shows "Parameter Error"; any other exception leaves the
\* handler uncaught and no message box is shown: the entry recorded is the
\* exception the toolkit reports for the callback
ErrorShown(exc) == IF exc = "ValueError" THEN "Parameter Error" ELSE exc

\* The try block once the entries are converted (conv): st.message is set by
\* the branch that shows an error and returns
Branch(st, i, icfg, T, end_day, conv) ==
    IF T <= 0
    THEN [st EXCEPT !.message = Some(Message("Interval Error", i, NoText, ""))]
    ELSE IF FirstFailure(conv) # 0
    THEN [st EXCEPT !.message =
              Some(Message(ErrorShown(conv[FirstFailure(conv)].r.exc), i,
                           conv[FirstFailure(conv)].text, ""))]
    ELSE IF icfg.model \notin {GBM, SVM}
    THEN [st EXCEPT !.message = Some(Message("Model Error", i, NoText, icfg.model))]
    ELSE Simulate(st, i, icfg, T, end_day,
                  IF icfg.model = GBM THEN GbmCallArgs(T, conv)
                  ELSE SvmCallArgs(T, icfg.params, conv))

\* the conversions the branch of the model tag makes; any tag converts dt
Conversions(icfg, last_price) ==
    IF icfg.model = GBM THEN GbmConversions(icfg.params, last_price)
    ELSE IF icfg.model = SVM THEN SvmConversions(icfg.params, last_price)
    ELSE <<[r |-> parse_float(Get(icfg.params, K_dt, FracStr(1, 365))),
            text |-> Get(icfg.params, K_dt, FracStr(1, 365))]>>

\* The body of the loop over the sorted configurations for the i-th of them
ChainIter(cfgs, i, st) ==
    Branch(st, i, cfgs[i], PyInt(cfgs[i].end).val - PyInt(cfgs[i].start).val,
           PyInt(cfgs[i].end).val, Conversions(cfgs[i], st.last_price))

RECURSIVE ChainLoop(_, _, _)
ChainLoop(cfgs, i, st) ==
    IF i > Len(cfgs) \/ ~IsNone(st.message) THEN st
    ELSE ChainLoop(cfgs, i + 1, ChainIter(cfgs, i, st))

\* the locals before the loop
ChainStart(r) ==
    [overall_days |-> <<>>, overall_open |-> <<>>, overall_close |-> <<>>,
     overall_high |-> <<>>, overall_low |-> <<>>,
     last_price |-> None, current_offset |-> 0,
     rng |-> r, calls |-> <<>>, message |-> None]

\* self._plot_result(days, prices): what the new window draws
PlotResult(days, prices) == [days |-> days, prices |-> prices]

\* Outcome storing and plotting what the loop had gathered when it stopped
OutcomePartial(results, st) ==
    [messages |-> IF IsNone(st.message) THEN <<>> ELSE <<Val(st.message)>>,
     simulation_results |-> Some([Day |-> st.overall_days, Open |-> st.overall_open,
                                  Close |-> st.overall_close, High |-> st.overall_high,
                                  Low |-> st.overall_low]),
     plot |-> Some(PlotResult(st.overall_days, st.overall_close)),
     calls |-> st.calls, rng |-> st.rng]

\* What the handler leaves when the loop ended with the locals st: the error
\* shown, the results untouched and no plot (plot is None); or the results
\* stored and plotted
Outcome(results, st) ==
    IF ~IsNone(st.message)
    THEN [messages |-> <<Val(st.message)>>,
          simulation_results |-> results, plot |-> None,
          calls |-> st.calls, rng |-> st.rng]
    ELSE [messages |-> <<>>,
          simulation_results |-> Some([Day |-> st.overall_days, Open |-> st.overall_open,
                                       Close |-> st.overall_close, High |-> st.overall_high,
                                       Low |-> st.overall_low]),
          plot |-> Some(PlotResult(st.overall_days, st.overall_close)),
          calls |-> st.calls, rng |-> st.rng]

\* The handler once the validation loop found the first rejected interval
\* (0 if none)
Validated(intervals, results, r, rejected) ==
    IF rejected # 0
    THEN [messages |-> <<ValidationMessage(intervals, rejected)>>,
          simulation_results |-> results, plot |-> None, calls |-> <<>>, rng |-> r]
    ELSE Outcome(results, ChainLoop(SortByStart(intervals), 1, ChainStart(r)))

\* The whole handler: what it shows, what it stores, the calls it made and
\* the random stream it leaves
run_simulation(intervals, results, r) ==
    Validated(intervals, results, r, FirstRejected(intervals, 1))

\* ------------------------------------------------------------------------
\* The program: the interval forms as the user filled them in, and the
\* Run Simulation button
\* ------------------------------------------------------------------------
GbmBaseParams ==
    (K_connected :> Junk) @@ (K_dt :> IntStr(4)) @@ (K_S0 :> IntStr(64))
    @@ (K_mu :> IntStr(0)) @@ (K_sigma :> IntStr(1))

SvmBaseParams ==
    (K_connected :> Junk) @@ (K_dt :> IntStr(4)) @@ (K_S0 :> IntStr(32))
    @@ (K_v0 :> IntStr(1)) @@ (K_kappa :> IntStr(1)) @@ (K_theta :> IntStr(1))
    @@ (K_sigma_v :> IntStr(0)) @@ (K_rho :> IntStr(0)) @@ (K_base_mu :> IntStr(0))
    @@ (K_bubble_extra :> IntStr(1)) @@ (K_bubble_start :> IntStr(1))
    @@ (K_bubble_end :> IntStr(1)) @@ (K_crash_day :> IntStr(1))
    @@ (K_crash_factor :> IntStr(3))

NumericKeys(params) == DOMAIN params \ {K_connected}

\* one entry retyped: as the fraction of the same value, or as one of the
\* other texts below
GbmEdits ==
    {<<k, FracStr(GbmBaseParams[k].num, 1)>> : k \in NumericKeys(GbmBaseParams)}
    \cup {<<K_dt, DecStr(40, 10)>>, <<K_dt, IntStr(-4)>>, <<K_dt, Junk>>,
          <<K_dt, FracStr(1, 0)>>, <<K_dt, NanStr>>, <<K_dt, IntStr(2 * FloatMax)>>,
          <<K_S0, IntStr(16)>>, <<K_S0, Junk>>, <<K_sigma, IntStr(0)>>}

SvmEdits ==
    {<<k, FracStr(SvmBaseParams[k].num, 1)>> : k \in NumericKeys(SvmBaseParams)}
    \cup {<<K_S0, IntStr(16)>>, <<K_v0, IntStr(-1)>>, <<K_sigma_v, IntStr(2)>>,
          <<K_rho, IntStr(2)>>, <<K_bubble_end, IntStr(2)>>,
          <<K_crash_day, IntStr(2)>>, <<K_crash_day, DecStr(10, 10)>>,
          <<K_crash_factor, Junk>>}

DayPairs == (0..MaxDay) \X (0..MaxDay)
ValidDayPairs == {d \in DayPairs : d[1] < d[2]}

Interval(d, model, params) ==
    [start |-> IntStr(d[1]), end |-> IntStr(d[2]), model |-> model, params |-> params]

\* intervals whose entries hold the base texts
PlainGbm(days) == {Interval(d, GBM, GbmBaseParams) : d \in days}
PlainSvm(days) == {Interval(d, SVM, SvmBaseParams) : d \in days}

\* intervals with one entry retyped, or with a model tag the menu does not offer
EditedIntervals(days) ==
    {Interval(d, GBM, [GbmBaseParams EXCEPT ![e[1]] = e[2]]) : d \in days, e \in GbmEdits}
    \cup {Interval(d, SVM, [SvmBaseParams EXCEPT ![e[1]] = e[2]]) : d \in days, e \in SvmEdits}
    \cup {Interval(d, "Unknown", <<>>) : d \in days}

\* The lists the forms can hold: at most MaxIntervals plain intervals of
\* either model with any days; or, with valid days, one edited interval
\* alone, before, or after one plain GBM interval
IntervalLists ==
    UNION {[1..n -> PlainGbm(DayPairs) \cup PlainSvm(DayPairs)] : n \in 0..MaxIntervals}
    \cup {<<e>> : e \in EditedIntervals(ValidDayPairs)}
    \cup {<<e, g>> : e \in EditedIntervals(ValidDayPairs), g \in PlainGbm(ValidDayPairs)}
    \cup {<<g, e>> : e \in EditedIntervals(ValidDayPairs), g \in PlainGbm(ValidDayPairs)}

\* the states the environment can leave the random stream in
EntropyStates == {SeedState(0), SeedState(2), SeedState(5)}

Init ==
    /\ model_intervals \in IntervalLists
    /\ simulation_results = None
    /\ messages = <<>>
    /\ calls = <<>>
    /\ rng \in EntropyStates
    /\ pc = "idle"
    /\ call = NoCall
    /\ ret = None
    /\ plotted = None
    /\ exported = None
    /\ clicks = 0

\* The Run Simulation button
RunSimulation ==
    /\ pc = "idle"
    /\ \E out \in {run_simulation(model_intervals, simulation_results, rng)} :
           /\ messages' = out.messages
           /\ simulation_results' = out.simulation_results
           /\ plotted' = IF IsNone(out.plot) THEN plotted ELSE out.plot
           /\ calls' = out.calls
           /\ rng' = out.rng
    /\ UNCHANGED <<model_intervals, pc, call, ret, exported>>

Next == RunSimulation /\ UNCHANGED clicks

Spec == Init /\ [][Next]_vars

\* ------------------------------------------------------------------------
\* A session: the user runs, exports and retypes the forms, MaxClicks
\* actions in all
\* ------------------------------------------------------------------------
\* the rows writer.writerow writes after the header, one per zipped day
Rows(results) ==
    [k \in 1..Len(results.Day) |->
        <<results.Day[k], results.Open[k], results.Close[k], results.High[k], results.Low[k]>>]

\* The Export to CSV button.  The save dialog returns a path or is
\* cancelled; opening the file or writing a row may raise, which leaves the
\* file as it was or holding the rows written so far.
ExportSimulation ==
    /\ pc = "idle"
    /\ \/ /\ IsNone(simulation_results)
          /\ messages' = <<Message("Export Error", 0, NoText, "")>>
          /\ exported' = exported
       \/ /\ ~IsNone(simulation_results)
          /\ messages' = <<>>
          /\ exported' = exported
       \/ /\ ~IsNone(simulation_results)
          /\ messages' = <<Message("Export Successful", 0, NoText, "")>>
          /\ exported' = Some(Rows(Val(simulation_results)))
       \/ /\ ~IsNone(simulation_results)
          /\ messages' = <<Message("Export Error", 0, NoText, "")>>
          /\ \/ exported' = exported
             \/ \E n \in 0..Len(Val(simulation_results).Day) :
                    exported' = Some(SubSeq(Rows(Val(simulation_results)), 1, n))
    /\ UNCHANGED <<model_intervals, simulation_results, plotted, calls, rng, pc, call, ret>>

\* The lists of a session: none; one or two intervals that simulate; an
\* interval whose days are rejected; and a second interval that stops the
\* run after the first was simulated (an entry that does not parse, a model
\* tag the menu does not offer)
SessionLists ==
    { <<>>,
      <<Interval(<<0, 1>>, GBM, GbmBaseParams)>>,
      <<Interval(<<0, 1>>, GBM, GbmBaseParams), Interval(<<1, 2>>, SVM, SvmBaseParams)>>,
      <<Interval(<<1, 1>>, GBM, GbmBaseParams)>>,
      <<Interval(<<0, 1>>, GBM, GbmBaseParams),
        Interval(<<1, 2>>, SVM, [SvmBaseParams EXCEPT ![K_crash_factor] = Junk])>>,
      <<Interval(<<0, 1>>, SVM, SvmBaseParams), Interval(<<1, 2>>, "Unknown", <<>>)>> }

\* The user retypes the forms, adds or removes intervals
EditIntervals ==
    /\ pc = "idle"
    /\ model_intervals' \in SessionLists \ {model_intervals}
    /\ UNCHANGED <<simulation_results, messages, calls, rng, pc, call, ret, plotted, exported>>

Click == clicks < MaxClicks /\ clicks' = clicks + 1

InitSession ==
    /\ model_intervals \in SessionLists
    /\ simulation_results = None
    /\ messages = <<>>
    /\ calls = <<>>
    /\ rng \in EntropyStates
    /\ pc = "idle"
    /\ call = NoCall
    /\ ret = None
    /\ plotted = None
    /\ exported = None
    /\ clicks = 0

NextSession ==
    \/ Click /\ RunSimulation
    \/ Click /\ ExportSimulation
    \/ Click /\ EditIntervals

SpecSession == InitSession /\ [][NextSession]_vars

\* ------------------------------------------------------------------------
\* The generators called directly: the arguments are drawn from bounded sets
\* ------------------------------------------------------------------------
GbmArgs ==
    {[T |-> T, dt |-> s * k, S0 |-> 64, mu |-> mu, sigma |-> sg,
      steps_per_day |-> s, seed |-> sd] :
        T \in 1..MaxT, s \in 1..MaxSteps, k \in {-1, 1},
        mu \in {0, 1}, sg \in {0, 1}, sd \in {None, Some(0), Some(5)}}

SvmBase(T, s) ==
    [T |-> T, dt |-> s, S0 |-> 64, v0 |-> 1, kappa |-> 1, theta |-> 1,
     sigma_v |-> 0, rho |-> 0, mu |-> 0,
     bubble_start |-> None, bubble_end |-> None, bubble_mu_extra |-> None,
     crash_day |-> None, crash_factor |-> None,
     steps_per_day |-> s, seed |-> None]

\* the variance parameters, adversarial values included
SvmVarianceArgs ==
    {[SvmBase(T, s) EXCEPT !.dt = s * k, !.v0 = v0, !.kappa = ka, !.theta = th,
                           !.sigma_v = sv, !.rho = rho] :
        T \in 1..MaxT, s \in 1..MaxSteps, k \in {-1, 1}, v0 \in {-1, 0, 1, 4},
        ka \in {0, 1}, th \in {0, 1}, sv \in {0, 1, 2}, rho \in {-1, 0, 1, 2}}

\* the bubble window and the crash event, each argument supplied or not
SvmEventArgs ==
    {[SvmBase(T, s) EXCEPT !.bubble_start = bs, !.bubble_end = be,
                           !.bubble_mu_extra = bx,
                           !.crash_day = cd, !.crash_factor = cf] :
        T \in 1..MaxT, s \in 1..MaxSteps,
        bs \in {None} \cup {Some(d) : d \in 1..MaxT},
        be \in {None} \cup {Some(d) : d \in 1..MaxT},
        bx \in {None, Some(1)},
        cd \in {None} \cup {Some(d) : d \in 0..(MaxT + 1)},
        cf \in {None, Some(0), Some(3)}}

SvmSeedArgs ==
    {[SvmBase(T, s) EXCEPT !.seed = Some(sd)] : T \in 1..MaxT, s \in 1..MaxSteps, sd \in {0, 5}}

SvmArgs == SvmVarianceArgs \cup SvmEventArgs \cup SvmSeedArgs

\* the texts parse_float is called with: literals and fractions inside and
\* beyond the range of a float, a zero denominator, "nan", and other text
ParseTexts ==
    {IntStr(n) : n \in {-4, 0, 7, 2 * FloatMax, 0 - 2 * FloatMax}}
    \cup {DecStr(n, d) : n \in {5, 15, 40 * FloatMax}, d \in {10, 100}}
    \cup {FracStr(n, d) : n \in {-1, 1, 64, 2 * FloatMax}, d \in {0, 1, 365}}
    \cup {NanStr, Junk}

InitGen ==
    /\ model_intervals = <<>>
    /\ simulation_results = None
    /\ messages = <<>>
    /\ calls = <<>>
    /\ rng \in Streams
    /\ pc = "call"
    /\ call \in {[fn |-> "gbm", args |-> a] : a \in GbmArgs}
                \cup {[fn |-> "svm", args |-> a] : a \in SvmArgs}
                \cup {[fn |-> "parse_float", args |-> a] : a \in ParseTexts}
    /\ ret = None
    /\ plotted = None
    /\ exported = None
    /\ clicks = 0

CallGbm ==
    /\ pc = "call" /\ call.fn = "gbm"
    /\ \E res \in {generate_gbm_prices(call.args, rng)} :
           /\ ret' = Some(res)
           /\ rng' = res.rng
    /\ pc' = "returned"
    /\ UNCHANGED <<model_intervals, simulation_results, messages, calls, call,
                   plotted, exported, clicks>>

CallSvm ==
    /\ pc = "call" /\ call.fn = "svm"
    /\ \E res \in {generate_svm_prices(call.args, rng)} :
           /\ ret' = Some(res)
           /\ rng' = res.rng
    /\ pc' = "returned"
    /\ UNCHANGED <<model_intervals, simulation_results, messages, calls, call,
                   plotted, exported, clicks>>

CallParseFloat ==
    /\ pc = "call" /\ call.fn = "parse_float"
    /\ ret' = Some(parse_float(call.args))
    /\ pc' = "returned"
    /\ UNCHANGED <<model_intervals, simulation_results, messages, calls, rng, call,
                   plotted, exported, clicks>>

NextGen == CallGbm \/ CallSvm \/ CallParseFloat

SpecGen == InitGen /\ [][NextGen]_vars

\* ------------------------------------------------------------------------
\* Properties of the generators (SpecGen)
\* ------------------------------------------------------------------------
Returned == pc = "returned" /\ ~IsNone(ret) /\ call.fn \in {"gbm", "svm"}
R == Val(ret)
A == call.args
TotalSteps == A.T * A.steps_per_day
DtIntra == Div(A.dt, A.steps_per_day)

\* C1: every daily bar of generate_gbm_prices and generate_svm_prices has
\* low <= open <= high and low <= close <= high (stated for dt > 0).
C1_OhlcConsistent ==
    (Returned /\ A.dt > 0) =>
        \A d \in 1..Len(R.open) :
            /\ Le(R.low[d], R.open[d]) /\ Le(R.open[d], R.high[d])
            /\ Le(R.low[d], R.close[d]) /\ Le(R.close[d], R.high[d])

\* C4: in generate_svm_prices v[t] >= 0 at every index t in 0..total_steps,
\* for any input parameters and any draws.
C4_VarianceNonNegative ==
    (Returned /\ R.fn = "svm") => \A t \in 0..TotalSteps : Le(0, R.v[t])

\* the value the log-Euler line stores at index k (sub-step t = k - 1) when
\* the drift is dr
Diffused(k, dr) ==
    MulExp(R.S[k - 1], SvmExponent(R.v[k - 1], dr, DtIntra, R.eps1[k - 1]))

\* the prices S[(d-1)*steps_per_day + 1 .. d*steps_per_day] of day d
DaySlice(d) ==
    [j \in 1..A.steps_per_day |-> R.S[(d - 1) * A.steps_per_day + j]]

\* C6: with crash_day and crash_factor set the multiplier is applied exactly
\* at index crash_day * steps_per_day, after the diffusion update, and
\* nowhere else; that day's close, high and low see the crashed value; a
\* crash_day outside 1..T never fires.
C6_CrashOnce ==
    (Returned /\ R.fn = "svm" /\ ~IsNone(A.crash_day) /\ ~IsNone(A.crash_factor)) =>
        LET cd == Val(A.crash_day)
            k0 == cd * A.steps_per_day
        IN  /\ \A k \in 1..TotalSteps :
                 /\ R.crashed[k] <=> (k = k0)
                 /\ R.S[k] = IF k = k0
                             THEN Mul(Diffused(k, R.drift[k]), Val(A.crash_factor))
                             ELSE Diffused(k, R.drift[k])
            /\ cd \in 1..A.T =>
                 /\ R.close[cd] = R.S[k0]
                 /\ R.high[cd] = NpMax(DaySlice(cd))
                 /\ R.low[cd] = NpMin(DaySlice(cd))
            /\ cd \notin 1..A.T => \A k \in 1..TotalSteps : ~R.crashed[k]

C6_Witness ==
    /\ Returned /\ R.fn = "svm" /\ A.T = 2 /\ A.steps_per_day = 2
    /\ A.crash_day = Some(1) /\ A.crash_factor = Some(3)
    /\ R.crashed[2] /\ R.S[2] = 3 * R.diffused[2] /\ R.S[2] # R.diffused[2]
    /\ R.high[1] = R.S[2]

\* the drift the claim prescribes for the sub-step stored at index k
BubbleDrift(k) ==
    LET day == ((k - 1) \div A.steps_per_day) + 1
    IN  IF /\ ~IsNone(A.bubble_start) /\ ~IsNone(A.bubble_end)
           /\ ~IsNone(A.bubble_mu_extra)
           /\ day \in Val(A.bubble_start)..Val(A.bubble_end)
        THEN A.mu + Val(A.bubble_mu_extra)
        ELSE A.mu

\* C7: the drift of sub-step t is mu + bubble_mu_extra exactly when the three
\* bubble arguments are supplied and bubble_start <= day <= bubble_end, and
\* mu otherwise; that drift is the one the price update uses.
C7_BubbleDrift ==
    (Returned /\ R.fn = "svm") =>
        \A k \in 1..TotalSteps :
            /\ R.drift[k] = BubbleDrift(k)
            /\ R.diffused[k] = Diffused(k, BubbleDrift(k))

C7_Witness ==
    /\ Returned /\ R.fn = "svm" /\ A.T = 2
    /\ A.bubble_start = Some(2) /\ A.bubble_end = Some(2)
    /\ A.bubble_mu_extra = Some(1)
    /\ R.drift[1] = A.mu /\ R.drift[TotalSteps] = A.mu + 1
    /\ R.diffused[TotalSteps] # Diffused(TotalSteps, A.mu)

\* the arrays a generator returns
Ohlc(res) == <<res.days, res.open, res.close, res.high, res.low>>

\* the generator of the pending call, called with arguments a on the stream r
Generate(a, r) ==
    IF call.fn = "gbm" THEN generate_gbm_prices(a, r) ELSE generate_svm_prices(a, r)

\* C13: a call with a seed returns the same days, open, close, high and low
\* as the same call made in any other state of the shared random stream,
\* that is, whatever was drawn from the stream before it.
C13_SeedDeterminism ==
    (Returned /\ ~IsNone(A.seed)) =>
        \A r \in Streams : Ohlc(Generate(A, r)) = Ohlc(R)

\* a seeded call whose unseeded twin does depend on the state of the stream
C13_Witness ==
    /\ Returned /\ ~IsNone(A.seed)
    /\ \E r \in Streams : Ohlc(Generate([A EXCEPT !.seed = None], r)) # Ohlc(R)
    /\ \A k \in 1..Len(R.close) : Finite(R.close[k])

\* ------------------------------------------------------------------------
\* Properties of run_simulation (Spec)
\* ------------------------------------------------------------------------
\* the last handler was a run that went through
Succeeded == ~IsNone(simulation_results) /\ messages = <<>>
Series == Val(simulation_results)
Last(xs) == xs[Len(xs)]

\* C2: the intervals are processed in ascending start-day order; the first
\* one starts at its own configured initial price, and every later one opens
\* at the close of the one processed just before it, whatever its model and
\* whatever initial price it configures.
C2_Continuity ==
    \A k \in 1..Len(calls) :
        /\ calls[k].i = k
        /\ calls[k].cfg = SortByStart(model_intervals)[k]
        /\ k = 1 => calls[k].args.S0 = PyFloat(calls[k].cfg.params[K_S0]).val
        /\ k > 1 =>
             /\ PyInt(calls[k - 1].cfg.start).val <= PyInt(calls[k].cfg.start).val
             /\ calls[k].args.S0 = Last(calls[k - 1].res.close)
             /\ calls[k].res.open[1] = Last(calls[k - 1].res.close)

C2_Witness ==
    /\ Succeeded /\ Len(calls) = 2
    /\ calls[1].cfg.model # calls[2].cfg.model
    /\ PyFloat(calls[2].cfg.params[K_S0]).ok
    /\ PyFloat(calls[2].cfg.params[K_S0]).val # Last(calls[1].res.close)
    /\ calls[2].res.open[1] = Last(calls[1].res.close)
    /\ Finite(calls[2].res.open[1])
    /\ model_intervals # SortByStart(model_intervals)

RECURSIVE TotalDays(_)
TotalDays(cfgs) ==
    IF cfgs = <<>> THEN 0
    ELSE TotalDays(Tail(cfgs)) + (PyInt(cfgs[1].end).val - PyInt(cfgs[1].start).val)

\* C3: after a run that went through, Day is exactly 1, 2, ..., N with N the
\* sum of end_day - start_day over the intervals, and Open, Close, High and
\* Low have N entries each.
C3_DaysContiguous ==
    Succeeded =>
        LET N == TotalDays(model_intervals)
        IN  /\ Series.Day = [k \in 1..N |-> k]
            /\ Len(Series.Open) = N /\ Len(Series.Close) = N
            /\ Len(Series.High) = N /\ Len(Series.Low) = N

\* two intervals that overlap and whose first day is not day 1
C3_Witness ==
    /\ Succeeded /\ Len(model_intervals) = 2
    /\ PyInt(model_intervals[1].start).val = 1 /\ PyInt(model_intervals[1].end).val = 2
    /\ PyInt(model_intervals[2].start).val = 0 /\ PyInt(model_intervals[2].end).val = 2
    /\ Series.Day = <<1, 2, 3>>

OrderFaults == {k \in 1..Len(model_intervals) :
                  PyInt(model_intervals[k].end).val <= PyInt(model_intervals[k].start).val}

\* C5: when some interval has end_day <= start_day, the run shows one error
\* that names the position of the first such interval, calls no generator,
\* draws nothing from the random stream and stores nothing.
C5_OrderingAbortsFirst ==
    [][OrderFaults # {} =>
         /\ messages' = <<Message("Error", CHOOSE k \in OrderFaults : \A j \in OrderFaults : k <= j,
                                  NoText, "")>>
         /\ calls' = <<>>
         /\ rng' = rng
         /\ simulation_results' = simulation_results]_vars

\* a valid interval in front of one with start_day = end_day
C5_Witness ==
    /\ Len(model_intervals) = 2
    /\ OrderFaults = {2}
    /\ PyInt(model_intervals[2].end).val = PyInt(model_intervals[2].start).val
    /\ messages = <<Message("Error", 2, NoText, "")>>
    /\ calls = <<>>

\* a text in fraction notation a/b with b # 0
ValidFraction(s) == s.form = "frac" /\ s.den # 0

\* C8: every numeric entry may be written as a fraction: no entry holding a
\* fraction a/b (b # 0) is rejected as a parameter error.
C8_FractionsAccepted ==
    \A k \in 1..Len(messages) :
        messages[k].title = "Parameter Error" => ~ValidFraction(messages[k].text)

\* C9: no generator is called with a negative dt or a correlation outside
\* [-1, 1].
C9_OutOfRangeRejected ==
    \A k \in 1..Len(calls) :
        /\ ~Lt(calls[k].args.dt, 0)
        /\ calls[k].res.fn = "svm" => (Le(-1, calls[k].args.rho) /\ Le(calls[k].args.rho, 1))

\* C10: the error for an entry that fails to parse names the position, in
\* the list as the user filled it in, of the interval the entry belongs to.
C10_ErrorNamesUserPosition ==
    \A k \in 1..Len(messages) :
        messages[k].title = "Parameter Error" =>
            /\ messages[k].index \in 1..Len(model_intervals)
            /\ model_intervals[messages[k].index] = SortByStart(model_intervals)[messages[k].index]

\* C14: in the series a run stores, the open of every day after the first
\* is the close of the day before it, inside an interval and across the
\* boundary of two intervals.
C14_OpenIsPreviousClose ==
    Succeeded =>
        \A k \in 1..(Len(Series.Open) - 1) : Series.Open[k + 1] = Series.Close[k]

\* a two-day SV interval that crashes at the end of its first day, followed
\* by another interval: the second day opens at the crashed price
C14_Witness ==
    /\ Succeeded /\ Len(calls) = 2
    /\ calls[1].res.fn = "svm" /\ Len(calls[1].res.open) = 2
    /\ calls[1].res.crashed[DefaultStepsPerDay]
    /\ calls[1].res.S[DefaultStepsPerDay] # calls[1].res.diffused[DefaultStepsPerDay]
    /\ Series.Open[2] = calls[1].res.S[DefaultStepsPerDay]
    /\ Series.Open[3] = Series.Close[2]
    /\ \A k \in 1..3 : Finite(Series.Close[k]) /\ Series.Close[k] > 0

\* ------------------------------------------------------------------------
\* Properties of a session (SpecSession)
\* ------------------------------------------------------------------------
\* the last handler stopped a run with an error
RunStopped(ms) ==
    ms # <<>> /\ ms[1].title \notin {"Export Error", "Export Successful"}

\* a series with one bar for every day of every interval of the forms
Complete(results) ==
    /\ Len(results.Day) = TotalDays(model_intervals)
    /\ Len(results.Open) = Len(results.Day) /\ Len(results.Close) = Len(results.Day)
    /\ Len(results.High) = Len(results.Day) /\ Len(results.Low) = Len(results.Day)

\* C11: a run that stops with an error stores, plots and exports nothing;
\* simulation_results is replaced only by the complete series of a run that
\* went through, and only such a run plots; an export never changes the
\* results, writes rows of the stored series only, and when it reports
\* success the file holds all of them; with nothing stored it writes nothing.
C11_NoPartialOutput ==
    [][/\ RunStopped(messages') =>
            /\ simulation_results' = simulation_results
            /\ plotted' = plotted
            /\ exported' = exported
       /\ simulation_results' # simulation_results =>
            /\ messages' = <<>>
            /\ ~IsNone(simulation_results')
            /\ Complete(Val(simulation_results'))
            /\ Len(calls') = Len(model_intervals)
       /\ plotted' # plotted =>
            /\ messages' = <<>>
            /\ ~IsNone(simulation_results')
            /\ plotted' = Some(PlotResult(Val(simulation_results').Day, Val(simulation_results').Close))
       /\ exported' # exported =>
            /\ simulation_results' = simulation_results
            /\ ~IsNone(simulation_results)
            /\ \E n \in 0..Len(Series.Day) : exported' = Some(SubSeq(Rows(Series), 1, n))
       /\ (messages' # <<>> /\ messages'[1].title = "Export Successful") =>
            /\ ~IsNone(simulation_results)
            /\ exported' = Some(Rows(Series))]_vars

\* an export after a run that stopped at its second interval, the first one
\* simulated: the file holds the two days of the run before it
C11_Witness ==
    /\ messages = <<Message("Export Successful", 0, NoText, "")>>
    /\ Len(calls) = 1 /\ Len(model_intervals) = 2
    /\ ~IsNone(simulation_results) /\ Len(Series.Day) = 2
    /\ exported = Some(Rows(Series))
    /\ plotted = Some(PlotResult(Series.Day, Series.Close))

\* ------------------------------------------------------------------------
\* Properties of parse_float (SpecGen)
\* ------------------------------------------------------------------------
Parsed == pc = "returned" /\ call.fn = "parse_float"

\* C12: parse_float returns a number for every decimal literal and every
\* fraction a/b with b # 0, and raises ValueError quoting the text for a
\* zero denominator and for text that is neither; it changes nothing else.
C12_ParseFloatContract ==
    Parsed =>
        /\ (call.args.form \in {"int", "dec"} \/ ValidFraction(call.args)) => Val(ret).ok
        /\ (call.args.form = "junk" \/ (call.args.form = "frac" /\ call.args.den = 0)) =>
               (~Val(ret).ok /\ Val(ret).exc = "ValueError" /\ Val(ret).arg = call.args)

====
